---- MODULE Spec2Model ----
(***************************************************************************)
(* iochannel: a single-threaded in-process byte pipe (src/src/lib.rs).     *)
(*                                                                         *)
(* A channel is one Rc<RefCell<VecDeque<u8>>> allocation.  The ReadChannel *)
(* holds the only strong reference (Rc), the WriteChannel holds a Weak.    *)
(* Every call (read, write, flush, drop) runs to completion: the crate is  *)
(* neither Send nor Sync, so one action of the model is one whole call.    *)
(***************************************************************************)
EXTENDS Integers, Sequences, FiniteSets, TLC

\* ------------------------------------------------------------------ bounds
\* Longest slice handed to one write call (besides TestVector).
MaxWriteLen == 2
\* Most bytes ever written to one channel (caps the unbounded VecDeque).
MaxWritten == 5
\* Largest destination buffer handed to read.
MaxCap == 5
\* Most channels created in a run with several channels (SpecTwo).
MaxChannels == 2
\* Most bytes written to all channels together in such a run.
MaxWrittenTwo == 3

\* ------------------------------------------------------------- program data
\* u8: the element type of the queue and of every slice.
U8Max == 255
Byte == 0..U8Max

\* The slice of test::basic_read_write and test::read_dropped.
TestVector == <<1, 2, 3, 4, 5>>

\* Byte values the short slices are built from.
SmallBytes == {1, 2}

\* Slices a caller passes to write: every short slice and the test vector.
Payloads ==
  UNION {[1..n -> SmallBytes] : n \in 0..MaxWriteLen} \cup {TestVector}

\* Values a destination buffer is filled with before a read ([0; 5] in the
\* tests, and a second value that no short slice contains).
Fills == {0, 7}

\* Destination buffers a caller passes to read: any capacity, pre-filled.
Buffers == {[i \in 1..n |-> f] : n \in 0..MaxCap, f \in Fills}

Min(a, b) == IF a <= b THEN a ELSE b

\* -------------------------------------------------------------------- state
VARIABLES
  readChannel,   \* [Chans -> {"live","dropped"}]: the ReadChannel value
  writeChannel,  \* [Chans -> {"live","dropped"}]: the WriteChannel value
  strong,        \* [Chans -> Nat]: strong count of the Rc allocation
                 \* (every per-channel variable is a sequence, one entry
                 \* per channel created)
  buffer,        \* [Chans -> Seq(Byte)]: the VecDeque inside the RefCell
  written,       \* history: bytes of all successful writes, per channel
  delivered,     \* history: bytes returned by all reads, per channel
  last           \* the last call: its arguments, its result, the queue before

vars == <<readChannel, writeChannel, strong, buffer, written, delivered, last>>

\* The channels created so far, numbered in the order of the new_io_channel
\* calls.  A number is never used again: the allocation of an Rc stays in
\* place while a Weak points to it, so a later Rc::new cannot take it over.
Chans == DOMAIN strong

\* io::Result values.
Ok(n) == [kind |-> "Ok", n |-> n]
BrokenPipe == [kind |-> "BrokenPipe", n |-> 0]
NoResult == [kind |-> "none", n |-> 0]

\* Record of one call.  pre: the queue before the call; arg: the slice given
\* to write, or the destination buffer as given to read; out: the destination
\* buffer after read.
Call(op, c, arg, pre, res, out) ==
  [op |-> op, chan |-> c, arg |-> arg, pre |-> pre, res |-> res, out |-> out]

\* --------------------------------------------------------- pure operations
\* Bug variant: the writer finds whatever queue is alive (one shared queue
\* slot instead of one allocation per channel).
upgrade_any(c) == \E d \in Chans : strong[d] > 0

\* Bug variant: the writer never looks at the strong count.
upgrade_always(c) == TRUE

\* Weak::upgrade: Some exactly while a strong reference exists.
upgrade(c) == strong[c] > 0

\* Bug variant: the loop bound is one short (for i in 1..to_read).
to_read_short(data, buf) ==
  IF Min(Len(data), Len(buf)) = 0 THEN 0 ELSE Min(Len(data), Len(buf)) - 1

\* to_read = data.len().min(buf.len())
to_read(data, buf) == Min(Len(data), Len(buf))

\* Bug variant: pop_back instead of pop_front.
RECURSIVE read_loop_pop_back(_, _, _, _)
read_loop_pop_back(data, buf, i, n) ==
  IF i >= n
    THEN [data |-> data, buf |-> buf]
    ELSE read_loop_pop_back(SubSeq(data, 1, Len(data) - 1),
                            [buf EXCEPT ![i + 1] = data[Len(data)]], i + 1, n)

\* Bug variant: front() instead of pop_front(): the bytes stay queued.
read_loop_peek(data, buf, i, n) ==
  [data |-> data,
   buf |-> [k \in 1..Len(buf) |-> IF k <= n THEN data[k] ELSE buf[k]]]

\* Bug variant: the destination is zeroed past the bytes copied.
read_loop_zero_tail(data, buf, i, n) ==
  [data |-> SubSeq(data, n + 1, Len(data)),
   buf |-> [k \in 1..Len(buf) |-> IF k <= n THEN data[k] ELSE 0]]

\* for i in 0..to_read { buf[i] = data.pop_front().unwrap(); }
RECURSIVE read_loop(_, _, _, _)
read_loop(data, buf, i, n) ==
  IF i >= n
    THEN [data |-> data, buf |-> buf]
    ELSE read_loop(Tail(data), [buf EXCEPT ![i + 1] = Head(data)], i + 1, n)

\* Bug variant: the slice goes to the front of the queue.
extend_front(data, buf) == buf \o data

\* Bug variant: a queue of fixed capacity that takes what fits.
extend_partial(data, buf) ==
  data \o SubSeq(buf, 1, Min(Len(buf), 3 - Len(data)))

\* Bug variant: the slice replaces the queue.
extend_replace(data, buf) == buf

\* data.extend(buf)
extend(data, buf) == data \o buf

\* Bug variant: the bytes outlive the last strong reference.
drop_value_keep(data) == data

\* Dropping the value of an Rc whose strong count reached zero: the VecDeque
\* and its bytes are freed.
drop_value(data) == <<>>

\* ------------------------------------------------------------------ actions
\* Bug variant: the queue is built with one zeroed element (a length taken
\* for a capacity) instead of empty.
new_io_channel_preloaded ==
  /\ readChannel = <<"live">>
  /\ writeChannel = <<"live">>
  /\ strong = <<1>>
  /\ buffer = <<<<0>>>>
  /\ written = <<<<>>>>
  /\ delivered = <<<<>>>>
  /\ last = Call("new", 1, <<>>, <<>>, NoResult, <<>>)

\* new_io_channel(): an empty queue, one strong reference (the reader's), one
\* weak reference (the writer's).
new_io_channel ==
  /\ readChannel = <<"live">>
  /\ writeChannel = <<"live">>
  /\ strong = <<1>>
  /\ buffer = <<<<>>>>
  /\ written = <<<<>>>>
  /\ delivered = <<<<>>>>
  /\ last = Call("new", 1, <<>>, <<>>, NoResult, <<>>)

Init == new_io_channel

\* A further new_io_channel() call: one more allocation with its own queue
\* and its own pair of handles; the existing channels are not touched.
new_io_channel_next ==
  /\ Len(strong) < MaxChannels
  /\ readChannel' = Append(readChannel, "live")
  /\ writeChannel' = Append(writeChannel, "live")
  /\ strong' = Append(strong, 1)
  /\ buffer' = Append(buffer, <<>>)
  /\ written' = Append(written, <<>>)
  /\ delivered' = Append(delivered, <<>>)
  /\ last' = Call("new", Len(strong) + 1, <<>>, <<>>, NoResult, <<>>)

\* Bug variant: a drained queue whose writer is gone is an error (end of
\* stream reported as UnexpectedEof, here any non-Ok result).
read_eof(c, buf) ==
  /\ readChannel[c] = "live"
  /\ LET n == to_read(buffer[c], buf)
         r == read_loop(buffer[c], buf, 0, n)
     IN /\ buffer' = [buffer EXCEPT ![c] = r.data]
        /\ delivered' = [delivered EXCEPT ![c] = @ \o SubSeq(r.buf, 1, n)]
        /\ last' = Call("read", c, buf, buffer[c],
                        IF n = 0 /\ writeChannel[c] = "dropped"
                          THEN BrokenPipe ELSE Ok(n), r.buf)
  /\ UNCHANGED <<readChannel, writeChannel, strong, written>>

\* Bug variant: an empty destination is taken as a request to discard the
\* queue.
read_zero_cap_clears(c, buf) ==
  /\ readChannel[c] = "live"
  /\ LET n == to_read(buffer[c], buf)
         r == read_loop(buffer[c], buf, 0, n)
     IN /\ buffer' = [buffer EXCEPT ![c] = IF Len(buf) = 0 THEN <<>> ELSE r.data]
        /\ delivered' = [delivered EXCEPT ![c] = @ \o SubSeq(r.buf, 1, n)]
        /\ last' = Call("read", c, buf, buffer[c], Ok(n), r.buf)
  /\ UNCHANGED <<readChannel, writeChannel, strong, written>>

\* ReadChannel::read(&mut self, buf)
read(c, buf) ==
  /\ readChannel[c] = "live"
  /\ LET n == to_read(buffer[c], buf)
         r == read_loop(buffer[c], buf, 0, n)
     IN /\ buffer' = [buffer EXCEPT ![c] = r.data]
        /\ delivered' = [delivered EXCEPT ![c] = @ \o SubSeq(r.buf, 1, n)]
        /\ last' = Call("read", c, buf, buffer[c], Ok(n), r.buf)
  /\ UNCHANGED <<readChannel, writeChannel, strong, written>>

\* Bug variant: the liveness check is made on a stale answer (the writer
\* remembers that the queue existed) and the append is done regardless.
write_unchecked(c, buf) ==
  /\ writeChannel[c] = "live"
  /\ Len(written[c]) + Len(buf) <= MaxWritten
  /\ buffer' = [buffer EXCEPT ![c] = extend(@, buf)]
  /\ written' = [written EXCEPT ![c] = @ \o buf]
  /\ last' = Call("write", c, buf, buffer[c], Ok(Len(buf)), <<>>)
  /\ UNCHANGED <<readChannel, writeChannel, strong, delivered>>

\* WriteChannel::write(&mut self, buf)
write(c, buf) ==
  /\ writeChannel[c] = "live"
  /\ IF upgrade(c)
       THEN /\ Len(written[c]) + Len(buf) <= MaxWritten
            /\ buffer' = [buffer EXCEPT ![c] = extend(@, buf)]
            /\ written' = [written EXCEPT ![c] = @ \o buf]
            /\ last' = Call("write", c, buf, buffer[c], Ok(Len(buf)), <<>>)
       ELSE /\ UNCHANGED <<buffer, written>>
            /\ last' = Call("write", c, buf, buffer[c], BrokenPipe, <<>>)
  /\ UNCHANGED <<readChannel, writeChannel, strong, delivered>>

\* Bug variant: flush as a plain no-op.
flush_always_ok(c) ==
  /\ writeChannel[c] = "live"
  /\ last' = Call("flush", c, <<>>, buffer[c], Ok(0), <<>>)
  /\ UNCHANGED <<readChannel, writeChannel, strong, buffer, written, delivered>>

\* Bug variant: flush discards what is queued.
flush_clears(c) ==
  /\ writeChannel[c] = "live"
  /\ buffer' = [buffer EXCEPT ![c] = <<>>]
  /\ last' = Call("flush", c, <<>>, buffer[c],
                  IF upgrade(c) THEN Ok(0) ELSE BrokenPipe, <<>>)
  /\ UNCHANGED <<readChannel, writeChannel, strong, written, delivered>>

\* WriteChannel::flush(&mut self)
flush(c) ==
  /\ writeChannel[c] = "live"
  /\ last' = Call("flush", c, <<>>, buffer[c],
                  IF upgrade(c) THEN Ok(0) ELSE BrokenPipe, <<>>)
  /\ UNCHANGED <<readChannel, writeChannel, strong, buffer, written, delivered>>

\* Bug variant: the writer holds a strong reference too, so dropping the
\* reader leaves the count above zero and the queue in place.
drop_read_leak(c) ==
  /\ readChannel[c] = "live"
  /\ readChannel' = [readChannel EXCEPT ![c] = "dropped"]
  /\ last' = Call("drop_read", c, <<>>, buffer[c], NoResult, <<>>)
  /\ UNCHANGED <<writeChannel, strong, buffer, written, delivered>>

\* drop(ReadChannel): its Rc is dropped; at strong count zero the value goes.
drop_read(c) ==
  /\ readChannel[c] = "live"
  /\ readChannel' = [readChannel EXCEPT ![c] = "dropped"]
  /\ strong' = [strong EXCEPT ![c] = @ - 1]
  /\ buffer' = [buffer EXCEPT ![c] =
                  IF strong[c] - 1 = 0 THEN drop_value(@) ELSE @]
  /\ last' = Call("drop_read", c, <<>>, buffer[c], NoResult, <<>>)
  /\ UNCHANGED <<writeChannel, written, delivered>>

\* Bug variant: closing the write half clears the queue.
drop_write_clears(c) ==
  /\ writeChannel[c] = "live"
  /\ writeChannel' = [writeChannel EXCEPT ![c] = "dropped"]
  /\ buffer' = [buffer EXCEPT ![c] = <<>>]
  /\ last' = Call("drop_write", c, <<>>, buffer[c], NoResult, <<>>)
  /\ UNCHANGED <<readChannel, strong, written, delivered>>

\* Bug variant: the write half owns the queue as well, so dropping it takes
\* the strong count down and frees the value.
drop_write_disconnects(c) ==
  /\ writeChannel[c] = "live"
  /\ writeChannel' = [writeChannel EXCEPT ![c] = "dropped"]
  /\ strong' = [strong EXCEPT ![c] = 0]
  /\ buffer' = [buffer EXCEPT ![c] = drop_value(@)]
  /\ last' = Call("drop_write", c, <<>>, buffer[c], NoResult, <<>>)
  /\ UNCHANGED <<readChannel, written, delivered>>

\* drop(WriteChannel): its Weak is dropped; the strong count is untouched.
drop_write(c) ==
  /\ writeChannel[c] = "live"
  /\ writeChannel' = [writeChannel EXCEPT ![c] = "dropped"]
  /\ last' = Call("drop_write", c, <<>>, buffer[c], NoResult, <<>>)
  /\ UNCHANGED <<readChannel, strong, buffer, written, delivered>>

Next ==
  \/ \E c \in Chans, buf \in Buffers : read(c, buf)
  \/ \E c \in Chans, buf \in Payloads : write(c, buf)
  \/ \E c \in Chans : flush(c)
  \/ \E c \in Chans : drop_read(c)
  \/ \E c \in Chans : drop_write(c)

Spec == Init /\ [][Next]_vars

\* The caller of the drain: reads with a destination of capacity >= 1 keep
\* being issued on the channel for as long as its ReadChannel exists.
ReadSome(c) == \E buf \in Buffers : Len(buf) >= 1 /\ read(c, buf)

SpecDrain == Init /\ [][Next]_vars /\ WF_vars(ReadSome(1))

\* Runs with several channels.  The caller passes fewer kinds of slices and
\* destinations here, and at most MaxWrittenTwo bytes in total.
PayloadsTwo == {<<>>, <<1>>, <<2, 1>>}
BuffersTwo == {<<>>, <<0>>, <<0, 0, 0>>}

RECURSIVE TotalLen(_)
TotalLen(seqs) ==
  IF seqs = <<>> THEN 0 ELSE Len(Head(seqs)) + TotalLen(Tail(seqs))

NextTwo ==
  \/ new_io_channel_next
  \/ \E c \in Chans, buf \in BuffersTwo : read(c, buf)
  \/ \E c \in Chans, buf \in PayloadsTwo :
       TotalLen(written) + Len(buf) <= MaxWrittenTwo /\ write(c, buf)
  \/ \E c \in Chans : flush(c)
  \/ \E c \in Chans : drop_read(c)
  \/ \E c \in Chans : drop_write(c)

SpecTwo == Init /\ [][NextTwo]_vars

\* ------------------------------------------------------------------- typing
TypeOK ==
  /\ readChannel \in [Chans -> {"live", "dropped"}]
  /\ writeChannel \in [Chans -> {"live", "dropped"}]
  /\ strong \in [Chans -> 0..1]
  /\ \A c \in Chans :
       /\ \A i \in 1..Len(buffer[c]) : buffer[c][i] \in Byte
       /\ Len(written[c]) <= MaxWritten

\* ------------------------------------------------------------------ helpers
IsPrefix(s, t) == Len(s) <= Len(t) /\ SubSeq(t, 1, Len(s)) = s

LastIs(op, c) == last.op = op /\ last.chan = c

\* -------------------------------------------------------------------- C1
\* C1: round-trip ordering.  When a read is the first to deliver any byte of
\* a channel (no read took anything before it), the writes so far add up to
\* a non-empty B and the destination has capacity >= |B|, the read returns
\* Ok(|B|), positions 0..|B|-1 of the destination hold exactly B in the order
\* written, and the queue is left empty.
C1_RoundTrip ==
  \A c \in Chans :
    ( /\ LastIs("read", c)
      /\ written[c] # <<>>
      /\ Len(last.arg) >= Len(written[c])
      /\ Len(delivered[c]) = last.res.n )
    => /\ last.res = Ok(Len(written[c]))
       /\ SubSeq(last.out, 1, Len(written[c])) = written[c]
       /\ buffer[c] = <<>>

\* Three bytes from at least two write calls (a slice has at most MaxWriteLen
\* bytes unless it is the test vector), returned whole by one read.
C1_Witness ==
  /\ LastIs("read", 1)
  /\ written[1] = <<2, 1, 2>>
  /\ last.pre = <<2, 1, 2>>
  /\ Len(last.arg) = 5
  /\ last.res = Ok(3)
  /\ SubSeq(last.out, 1, 3) = <<2, 1, 2>>
  /\ buffer[1] = <<>>

\* -------------------------------------------------------------------- C2
\* C2: write after the reader was dropped.  Every write call made while the
\* ReadChannel is gone returns BrokenPipe, for every slice (the empty one
\* too), and changes nothing: the queue stays freed and empty, no byte is
\* recorded anywhere.
C2_WriteAfterReadDropped ==
  /\ [](\A c \in Chans :
          (LastIs("write", c) /\ readChannel[c] = "dropped")
          => /\ last.res = BrokenPipe
             /\ buffer[c] = last.pre
             /\ buffer[c] = <<>>)
  /\ [][\A c \in Chans, buf \in Payloads :
          (readChannel[c] = "dropped" /\ write(c, buf))
          => /\ last'.res = BrokenPipe
             /\ UNCHANGED <<readChannel, writeChannel, strong, buffer,
                            written, delivered>>]_vars

\* The zero-length slice, after bytes were written and the reader dropped.
C2_Witness ==
  /\ LastIs("write", 1)
  /\ readChannel[1] = "dropped"
  /\ last.arg = <<>>
  /\ last.res = BrokenPipe
  /\ written[1] = TestVector
  /\ delivered[1] = <<>>

\* -------------------------------------------------------------------- C3
\* C3: read never fails.  Every read call returns Ok(n) with
\* n = min(queue length before the call, destination capacity), whether the
\* queue was empty or not and whether the WriteChannel is alive or dropped.
C3_ReadNeverFails ==
  \A c \in Chans :
    LastIs("read", c)
    => /\ last.res.kind = "Ok"
       /\ last.res.n = Min(Len(last.pre), Len(last.arg))

\* A read of an empty queue whose writer is gone, into a non-empty buffer.
C3_Witness ==
  /\ LastIs("read", 1)
  /\ writeChannel[1] = "dropped"
  /\ last.pre = <<>>
  /\ Len(last.arg) = 3
  /\ last.res = Ok(0)

\* -------------------------------------------------------------------- C4
\* C4: full write while connected.  Every write call made while the
\* ReadChannel is alive returns Ok(len(bytes)), and the queue afterwards is
\* the queue before followed by all of bytes in the given order, whatever
\* the queue length was.
C4_FullWrite ==
  \A c \in Chans :
    (LastIs("write", c) /\ readChannel[c] = "live")
    => /\ last.res = Ok(Len(last.arg))
       /\ buffer[c] = last.pre \o last.arg

\* A two-byte write onto a queue that already held three bytes.
C4_Witness ==
  /\ LastIs("write", 1)
  /\ readChannel[1] = "live"
  /\ Len(last.pre) = 3
  /\ last.arg = <<1, 2>>
  /\ last.res = Ok(2)
  /\ buffer[1] = last.pre \o <<1, 2>>

\* -------------------------------------------------------------------- C5
\* C5: BrokenPipe is permanent.  Once the ReadChannel is dropped it stays
\* dropped and the weak reference never upgrades again in any later step,
\* and every write and flush made from then on returns BrokenPipe.
C5_BrokenPipePermanent ==
  /\ [](\A c \in Chans :
          ( /\ readChannel[c] = "dropped"
            /\ (LastIs("write", c) \/ LastIs("flush", c)) )
          => last.res = BrokenPipe)
  /\ [][\A c \in Chans :
          readChannel[c] = "dropped"
          => /\ readChannel'[c] = "dropped"
             /\ ~upgrade(c)'
             /\ (last'.op \in {"write", "flush"} /\ last'.chan = c
                 => last'.res = BrokenPipe)]_vars

\* A flush that fails after the reader was dropped.
C5_Witness ==
  /\ LastIs("flush", 1)
  /\ readChannel[1] = "dropped"
  /\ writeChannel[1] = "live"
  /\ last.res = BrokenPipe
  /\ written[1] # <<>>

\* -------------------------------------------------------------------- C6
\* C6: read after the writer was dropped.  Dropping the WriteChannel leaves
\* the queue as it was; while the ReadChannel lives the queue still holds
\* every written byte not yet delivered; each read made after the drop
\* returns Ok with the front bytes of the queue in order, and Ok(0) once the
\* queue is drained.
C6_ReadAfterWriteDropped ==
  \A c \in Chans :
    /\ LastIs("drop_write", c) => buffer[c] = last.pre
    /\ (writeChannel[c] = "dropped" /\ readChannel[c] = "live")
       => delivered[c] \o buffer[c] = written[c]
    /\ (writeChannel[c] = "dropped" /\ LastIs("read", c))
       => /\ last.res.kind = "Ok"
          /\ last.res.n <= Len(last.pre)
          /\ SubSeq(last.out, 1, last.res.n) = SubSeq(last.pre, 1, last.res.n)
          /\ (last.pre = <<>> => last.res = Ok(0) /\ buffer[c] = <<>>)

\* The two bytes written before the drop are read after it.
C6_Witness ==
  /\ LastIs("read", 1)
  /\ writeChannel[1] = "dropped"
  /\ written[1] = <<2, 1>>
  /\ last.pre = <<2, 1>>
  /\ last.res = Ok(2)
  /\ SubSeq(last.out, 1, 2) = <<2, 1>>

\* -------------------------------------------------------------------- C7
\* C7: partial read.  A read whose queue holds more bytes than the
\* destination capacity C returns Ok(C), the destination holds the first C
\* queued bytes in insertion order, and the queue keeps exactly the old
\* queue without its first C bytes.  On the test vector: reading 3 of
\* [1,2,3,4,5] gives [1,2,3] and leaves [4,5]; reading 5 of [4,5] gives 2
\* bytes, [4,5].
C7_PartialRead ==
  \A c \in Chans :
    LastIs("read", c)
    => /\ Len(last.pre) > Len(last.arg)
          => /\ last.res = Ok(Len(last.arg))
             /\ last.out = SubSeq(last.pre, 1, Len(last.arg))
             /\ buffer[c] = SubSeq(last.pre, Len(last.arg) + 1, Len(last.pre))
       /\ (last.pre = TestVector /\ Len(last.arg) = 3)
          => last.res = Ok(3) /\ last.out = <<1, 2, 3>> /\ buffer[c] = <<4, 5>>
       /\ (last.pre = <<4, 5>> /\ Len(last.arg) = 5)
          => last.res = Ok(2) /\ SubSeq(last.out, 1, 2) = <<4, 5>>
             /\ buffer[c] = <<>>

\* The first read of the example: 3 of the 5 bytes of the test vector.
C7_Witness ==
  /\ LastIs("read", 1)
  /\ written[1] = TestVector
  /\ last.pre = TestVector
  /\ Len(last.arg) = 3
  /\ last.res = Ok(3)
  /\ last.out = <<1, 2, 3>>
  /\ buffer[1] = <<4, 5>>

\* -------------------------------------------------------------------- C8
\* C8: conservation and FIFO order.  While the ReadChannel is alive, the
\* bytes returned by all reads so far followed by the queue contents are the
\* payloads of all successful writes so far, in order.
C8_Conservation ==
  \A c \in Chans :
    readChannel[c] = "live" => delivered[c] \o buffer[c] = written[c]

\* Writes and reads interleaved: a read has delivered bytes, a later write
\* has queued more.
C8_Witness ==
  /\ LastIs("write", 1)
  /\ readChannel[1] = "live"
  /\ delivered[1] = <<1, 2>>
  /\ buffer[1] = <<2, 2, 1>>
  /\ written[1] = <<1, 2, 2, 2, 1>>

\* -------------------------------------------------------------------- C9
\* C9: flush result.  Every flush returns Ok(()) when the ReadChannel is
\* alive, whatever the queue holds, and BrokenPipe when it was dropped.
C9_FlushResult ==
  \A c \in Chans :
    LastIs("flush", c)
    => /\ readChannel[c] = "live" => last.res = Ok(0)
       /\ readChannel[c] = "dropped" => last.res = BrokenPipe

\* A flush that succeeds on a non-empty queue.
C9_Witness ==
  /\ LastIs("flush", 1)
  /\ readChannel[1] = "live"
  /\ buffer[1] = <<1, 2>>
  /\ last.res = Ok(0)

\* -------------------------------------------------------------------- C10
\* C10: idempotence of drain.  A read of an empty queue returns Ok(0), leaves
\* the queue empty and the destination as given; and the bytes delivered by
\* all reads of a channel are always a prefix of the bytes written to it, so
\* no written byte is delivered by more than one read.
C10_DrainIdempotent ==
  \A c \in Chans :
    /\ (LastIs("read", c) /\ last.pre = <<>>)
       => last.res = Ok(0) /\ buffer[c] = <<>> /\ last.out = last.arg
    /\ IsPrefix(delivered[c], written[c])
    /\ LastIs("read", c)
       => Len(buffer[c]) + last.res.n = Len(last.pre)

\* A read of the drained queue: everything written was delivered before it.
C10_Witness ==
  /\ LastIs("read", 1)
  /\ last.pre = <<>>
  /\ Len(last.arg) = 2
  /\ last.res = Ok(0)
  /\ written[1] = <<1, 2, 1>>
  /\ delivered[1] = <<1, 2, 1>>

\* -------------------------------------------------------------------- C11
\* C11: fresh channel.  Right after new_io_channel the queue is empty and
\* the weak reference upgrades (the writer is connected); and a read of a
\* channel to which no byte was ever written returns Ok(0), whatever the
\* capacity, copies nothing into the destination and leaves the queue empty.
C11_FreshChannel ==
  \A c \in Chans :
    /\ LastIs("new", c)
       => buffer[c] = <<>> /\ upgrade(c) /\ readChannel[c] = "live"
          /\ writeChannel[c] = "live"
    /\ written[c] = <<>> => buffer[c] = <<>>
    /\ (LastIs("read", c) /\ written[c] = <<>>)
       => last.res = Ok(0) /\ last.out = last.arg /\ last.pre = <<>>

\* A read into a 5-byte buffer of the channel nothing was written to.
C11_Witness ==
  /\ LastIs("read", 1)
  /\ written[1] = <<>>
  /\ writeChannel[1] = "live"
  /\ last.arg = <<0, 0, 0, 0, 0>>
  /\ last.res = Ok(0)
  /\ last.out = <<0, 0, 0, 0, 0>>

\* -------------------------------------------------------------------- C12
\* C12: disconnection has a single cause.  The writer is Connected while its
\* weak reference upgrades.  A step takes a channel from Connected to
\* Disconnected only if it is the drop of that channel's ReadChannel; a
\* write, flush, read or drop of the WriteChannel leaves the connection
\* state as it was; and no step takes Disconnected back to Connected.
C12_SingleCause ==
  [][\A c \in Chans :
       /\ (upgrade(c) /\ ~upgrade(c)')
          => /\ last'.op = "drop_read" /\ last'.chan = c
             /\ readChannel[c] = "live" /\ readChannel'[c] = "dropped"
       /\ last'.op \in {"write", "flush", "read", "drop_write"}
          => (upgrade(c)' <=> upgrade(c))
       /\ ~upgrade(c) => ~upgrade(c)']_vars

\* The disconnecting step has happened: the reader was dropped while the
\* writer, which had written, is still alive.
C12_Witness ==
  /\ LastIs("drop_read", 1)
  /\ ~upgrade(1)
  /\ writeChannel[1] = "live"
  /\ last.pre = <<1, 2>>

\* -------------------------------------------------------------------- C13
\* C13: queue lifetime equals reader lifetime.  Between calls the queue
\* exists (the allocation has a strong reference) exactly when the
\* ReadChannel is alive, whether or not a WriteChannel is alive and whatever
\* it has written; once the ReadChannel is dropped no queued byte is kept:
\* the unread bytes are discarded by the drop itself.
C13_QueueLifetime ==
  \A c \in Chans :
    /\ strong[c] > 0 <=> readChannel[c] = "live"
    /\ readChannel[c] = "dropped" => buffer[c] = <<>>
    /\ LastIs("drop_read", c) => strong[c] = 0 /\ buffer[c] = <<>>

\* The reader is dropped with five unread bytes queued and the writer alive.
C13_Witness ==
  /\ LastIs("drop_read", 1)
  /\ writeChannel[1] = "live"
  /\ last.pre = TestVector
  /\ strong[1] = 0
  /\ buffer[1] = <<>>

\* -------------------------------------------------------------------- C14
\* C14: atomic check-then-append in write.  A write call is one step (the
\* crate is single-threaded and write calls no caller code), and in that
\* step the answer of the liveness check and the append go together: a
\* write returns Ok exactly when the weak reference upgraded, the queue it
\* appended to is alive before and after the call, and after an Ok(len) the
\* queue is the queue before followed by all len bytes.  So no write has
\* returned Ok(len) with its bytes on a freed queue or not appended.
C14_AtomicWrite ==
  /\ [](\A c \in Chans :
          (LastIs("write", c) /\ last.res.kind = "Ok")
          => /\ strong[c] > 0
             /\ readChannel[c] = "live"
             /\ last.res.n = Len(last.arg)
             /\ buffer[c] = last.pre \o last.arg)
  /\ [][\A c \in Chans, buf \in Payloads :
          write(c, buf)
          => /\ upgrade(c)' <=> upgrade(c)
             /\ last'.res.kind = "Ok" <=> upgrade(c)
             /\ last'.res.kind = "Ok"
                => buffer'[c] = buffer[c] \o buf /\ readChannel'[c] = "live"
             /\ last'.res.kind # "Ok" => buffer'[c] = buffer[c]]_vars

\* A write of two bytes has just returned Ok(2): its bytes are at the back
\* of a queue that is alive.
C14_Witness ==
  /\ LastIs("write", 1)
  /\ last.res = Ok(2)
  /\ last.pre = <<1>>
  /\ last.arg = <<2, 2>>
  /\ buffer[1] = <<1, 2, 2>>
  /\ strong[1] = 1

\* -------------------------------------------------------------------- C16
\* C16: flush is a no-op on state.  A flush call, whether it returns Ok
\* (connected) or BrokenPipe (disconnected), leaves the queue contents, the
\* strong count (the connection state) and both handles as they were.
C16_FlushNoOp ==
  /\ [](\A c \in Chans :
          LastIs("flush", c)
          => buffer[c] = last.pre /\ last.res.kind \in {"Ok", "BrokenPipe"})
  /\ [][\A c \in Chans :
          flush(c)
          => /\ UNCHANGED <<readChannel, writeChannel, strong, buffer,
                            written, delivered>>
             /\ upgrade(c)' <=> upgrade(c)]_vars

\* A flush that returned Ok with the whole test vector still queued.
C16_Witness ==
  /\ LastIs("flush", 1)
  /\ last.res = Ok(0)
  /\ last.pre = TestVector
  /\ buffer[1] = TestVector
  /\ strong[1] = 1

\* -------------------------------------------------------------------- C18
\* C18: read leaves the rest of the destination untouched.  After a read
\* that returned Ok(n) the destination has its capacity unchanged and every
\* position at index >= n holds the value it held before the call; a read
\* that returned 0 leaves the whole destination as given.
C18_ReadFrame ==
  \A c \in Chans :
    LastIs("read", c)
    => /\ Len(last.out) = Len(last.arg)
       /\ \A k \in 1..Len(last.arg) :
            k > last.res.n => last.out[k] = last.arg[k]
       /\ last.res.n = 0 => last.out = last.arg

\* Two bytes read into a 5-byte destination filled with 7: the last three
\* positions still hold 7.
C18_Witness ==
  /\ LastIs("read", 1)
  /\ last.arg = <<7, 7, 7, 7, 7>>
  /\ last.res = Ok(2)
  /\ last.out = <<2, 1, 7, 7, 7>>

\* -------------------------------------------------------------------- C19
\* C19: zero-size operations preserve the state.  A read into a destination
\* of capacity zero returns Ok(0) and leaves the queue as it was, also when
\* the queue is not empty; a write of the zero-length slice while the
\* ReadChannel is alive returns Ok(0) and leaves the queue as it was.
C19_ZeroSize ==
  /\ [](\A c \in Chans :
          /\ (LastIs("read", c) /\ Len(last.arg) = 0)
             => last.res = Ok(0) /\ buffer[c] = last.pre /\ last.out = <<>>
          /\ (LastIs("write", c) /\ last.arg = <<>> /\ readChannel[c] = "live")
             => last.res = Ok(0) /\ buffer[c] = last.pre)
  /\ [][\A c \in Chans :
          \/ read(c, <<>>)
          \/ (readChannel[c] = "live" /\ write(c, <<>>))
          => UNCHANGED <<readChannel, writeChannel, strong, buffer, written,
                         delivered>>]_vars

\* A read with capacity zero returned 0 although two bytes are queued.
C19_Witness ==
  /\ LastIs("read", 1)
  /\ last.arg = <<>>
  /\ last.res = Ok(0)
  /\ last.pre = <<1, 2>>
  /\ buffer[1] = <<1, 2>>

\* -------------------------------------------------------------------- C17
\* C17: drain terminates.  Every read with capacity >= 1 of a non-empty
\* queue takes at least one byte, so a queue of length L is empty after at
\* most L such reads; once the WriteChannel is dropped (no further write can
\* happen) and such reads keep being issued, the queue becomes empty (or the
\* reader is dropped), an empty queue then stays empty and every read of it
\* returns Ok(0).
C17_DrainTerminates ==
  /\ [](\A c \in Chans :
          /\ (LastIs("read", c) /\ Len(last.arg) >= 1 /\ last.pre # <<>>)
             => last.res.n >= 1 /\ Len(buffer[c]) < Len(last.pre)
          /\ (LastIs("read", c) /\ writeChannel[c] = "dropped"
              /\ last.pre = <<>>)
             => last.res = Ok(0))
  /\ [][\A c \in Chans :
          (writeChannel[c] = "dropped" /\ buffer[c] = <<>>)
          => buffer'[c] = <<>>]_vars
  /\ \A c \in {1} :
       (writeChannel[c] = "dropped" /\ readChannel[c] = "live")
       ~> (buffer[c] = <<>> \/ readChannel[c] = "dropped")

\* The last read of a drain: the writer is gone, the five bytes written were
\* delivered by more than one read, and this read emptied the queue.
C17_Witness ==
  /\ LastIs("read", 1)
  /\ writeChannel[1] = "dropped"
  /\ readChannel[1] = "live"
  /\ written[1] = TestVector
  /\ delivered[1] = TestVector
  /\ last.pre = <<4, 5>>
  /\ last.res = Ok(2)
  /\ buffer[1] = <<>>

\* -------------------------------------------------------------------- C15
\* C15: channels are independent.  With several channels, a write on one
\* channel's writer leaves every other channel's queue, strong count and
\* handles as they were; a new_io_channel call leaves every existing channel
\* as it was, so a channel whose reader was dropped stays disconnected; and
\* a write or flush on a channel whose reader was dropped returns BrokenPipe
\* whatever other channels are alive.
C15_Independent ==
  /\ [](\A c \in Chans :
          ( /\ readChannel[c] = "dropped"
            /\ (LastIs("write", c) \/ LastIs("flush", c))
            /\ \E d \in Chans : d # c /\ readChannel[d] = "live" )
          => last.res = BrokenPipe /\ buffer[c] = <<>>)
  /\ [][\A c \in Chans, d \in Chans, buf \in PayloadsTwo :
          (c # d /\ write(c, buf))
          => /\ buffer'[d] = buffer[d]
             /\ strong'[d] = strong[d]
             /\ readChannel'[d] = readChannel[d]
             /\ writeChannel'[d] = writeChannel[d]]_vars
  /\ [][new_io_channel_next
          => \A c \in Chans :
               /\ buffer'[c] = buffer[c]
               /\ strong'[c] = strong[c]
               /\ upgrade(c)' <=> upgrade(c)]_vars

\* The first channel's reader is dropped, a second channel is alive and holds
\* two bytes, and a write on the first channel's writer has just failed.
C15_Witness ==
  /\ Len(strong) = 2
  /\ readChannel[1] = "dropped"
  /\ readChannel[2] = "live"
  /\ buffer[2] = <<2, 1>>
  /\ LastIs("write", 1)
  /\ last.arg = <<1>>
  /\ last.res = BrokenPipe
  /\ buffer[1] = <<>>

====
